---------------------------- MODULE Spec2Model ----------------------------
(***************************************************************************)
(* The page-parallel OCR pipeline of src/src/ocrmypdf.py: repair, split,   *)
(* per-page rasterize / OCR / render, format-declaration stub, merge and   *)
(* validation, run as jobs of a dependency-ordered task graph over the     *)
(* files of a working directory, sharing the page metadata list _pdfinfo   *)
(* (behind _pdfinfo_lock) and the logger (behind its mutex).               *)
(***************************************************************************)
EXTENDS Integers, Sequences, FiniteSets, TLC

(***************************************************************************)
(* Bounds of the model.                                                    *)
(***************************************************************************)
MaxPages == 2
MaxWorkers == 2
MaxImages == 2

(***************************************************************************)
(* Program constants.                                                      *)
(***************************************************************************)
PrefixWidth == 6

(***************************************************************************)
(* File names.  A basename is a run of leading decimal digits (stem, a     *)
(* sequence of digits) followed by the rest of the name (ext).             *)
(***************************************************************************)
RECURSIVE DecDigits(_)
DecDigits(n) == IF n < 10 THEN <<n>> ELSE Append(DecDigits(n \div 10), n % 10)

\* zeros in front up to width w; a longer number is kept whole
ZeroPad(ds, w) ==
    IF Len(ds) >= w THEN ds
    ELSE [i \in 1..w |-> IF i <= w - Len(ds) THEN 0 ELSE ds[i - (w - Len(ds))]]

\* '%06d' % n
Format06d(n) == ZeroPad(DecDigits(n), PrefixWidth)

\* the number written by the first k digits of ds
RECURSIVE ParsePrefix(_, _)
ParsePrefix(ds, k) ==
    IF k = 0 THEN 0 ELSE 10 * ParsePrefix(ds, k - 1) + ds[k]

\* int(ds)
ParseInt(ds) == ParsePrefix(ds, Len(ds))

Name(stem, ext) == [stem |-> stem, ext |-> ext]

\* output_file_name_root + '%06d.page.pdf', page numbers counted from 1
PageNames == [n \in 0..(MaxPages + 1) |-> Name(Format06d(n), ".page.pdf")]

PagePdfName(n) ==
    IF n \in DOMAIN PageNames THEN PageNames[n] ELSE Name(Format06d(n), ".page.pdf")

\* mutant: the replacement drops the stem, the page prefix with it
WithExt_DropsStem(name, ext) == Name(<<>>, ext)

\* suffix replacement of the task decorators
WithExt(name, ext) == Name(name.stem, ext)

PngOf(name) == WithExt(name, ".page.png")
HocrOf(name) == WithExt(name, ".hocr")
RenderedOf(name) == WithExt(name, ".rendered.pdf")

\* NamedTemporaryFile(): a file of the system's temporary directory under a
\* name no other file has, written here as the name made for the call of
\* job j; it has no part taken from the page
TmpName(j) == [stem |-> <<>>, ext |-> "tmp", call |-> j]

RepairedName == Name(<<>>, "input.repaired.pdf")
StubName == Name(<<>>, "input.pdfa_def.ps")
MergedName == Name(<<>>, "merged.pdf")
OutputName == Name(<<>>, "output.pdf")

(***************************************************************************)
(* File contents: the pages a file carries, in order, each with the        *)
(* document it stems from (the source document of this run, "cur", or the  *)
(* one of an earlier run, "prev"), its ordinal there and the kind of text  *)
(* layer it has; age tells whether the file was left by an earlier run     *)
(* ("old") or written by this one ("new").                                 *)
(***************************************************************************)
Page(doc, i, text) == [doc |-> doc, page |-> i, text |-> text]
File(age, pages) == [age |-> age, pages |-> pages]

DocPages(doc, n) == [i \in 1..n |-> Page(doc, i - 1, "none")]

(***************************************************************************)
(* Jobs of the task graph: one per single-job stage (second component 0)   *)
(* and one per stage and page file number for the per-page stages.         *)
(***************************************************************************)
PageStages == {"rasterize", "ocr", "render"}
SingleStages == {"repair", "split", "stub", "merge", "validate"}

Job(stage, n) == <<stage, n>>
Jobs == {Job(s, 0) : s \in SingleStages}
            \cup {Job(s, n) : s \in PageStages, n \in 1..MaxPages}
NoJob == Job("none", 0)

VARIABLES
    input,          \* the source document: page count, newer than repaired?
    files,          \* working directory and output path: name -> content
    pc,             \* job -> status / position inside the stage function
    pdfinfo,        \* the shared list _pdfinfo
    pdfinfo_lock,   \* holder of _pdfinfo_lock
    log,            \* kinds of message that have reached the shared logger
    log_mutex,      \* holder of _logger_mutex
    pageinfo,       \* job -> <<>> or <<private copy of its descriptor>>
    proc,           \* job -> outcome of the external tool it ran
    todo,           \* job -> log calls the job still has to make
    args_gs,        \* file arguments of the compositor call (merge_pages)
    report,         \* what the validator printed (validate_pdfa)
    locals,         \* job -> <<>> or <<what the stage function computed from
                    \* its descriptor: device and resolution, or dpi>>
    tmpfiles,       \* names in the system's temporary directory
    stdout          \* what the stage functions have printed (not logged)

vars == <<input, files, pc, pdfinfo, pdfinfo_lock, log, log_mutex,
          pageinfo, proc, todo, args_gs, report, locals, tmpfiles, stdout>>

(***************************************************************************)
(* What an earlier run over the same working directory may have left.      *)
(* lvl[n] is how far page file n got: 0 page pdf only, 1 image, 2 hOCR,    *)
(* 3 rendered page.                                                        *)
(***************************************************************************)
OldContent(x, doc, prev) ==
    IF x = RepairedName THEN File("old", DocPages(doc, prev))
    ELSE IF x = StubName THEN File("old", <<>>)
    ELSE IF x \in {MergedName, OutputName}
         THEN File("old", [i \in 1..prev |-> Page(doc, i - 1, "ocr")])
    ELSE File("old", <<Page(doc, ParseInt(x.stem) - 1,
                            IF x.ext \in {".hocr", ".rendered.pdf"}
                            THEN "ocr" ELSE "none")>>)

OldFiles(doc, prev, lvl, stub, merged, out) ==
    LET names ==
            {RepairedName}
            \cup {PagePdfName(n) : n \in 1..prev}
            \cup {PngOf(PagePdfName(n)) : n \in {m \in 1..prev : lvl[m] >= 1}}
            \cup {HocrOf(PagePdfName(n)) : n \in {m \in 1..prev : lvl[m] >= 2}}
            \cup {RenderedOf(PagePdfName(n)) : n \in {m \in 1..prev : lvl[m] >= 3}}
            \cup (IF stub THEN {StubName} ELSE {})
            \cup (IF merged THEN {MergedName} ELSE {})
            \cup (IF out THEN {OutputName} ELSE {})
    IN  [x \in names |-> OldContent(x, doc, prev)]

NoFiles == [x \in {} |-> File("old", <<>>)]

\* directory states at the start of a run on a document of d pages
PriorRuns(d) ==
    \* first run: empty working directory
    {[changed |-> TRUE, files |-> NoFiles]}
    \* the source document was replaced after a complete run on a longer one
    \cup {[changed |-> TRUE,
           files |-> OldFiles("prev", prev, [n \in 1..prev |-> 3], TRUE, TRUE, TRUE)]
              : prev \in (d + 1)..MaxPages}
    \* same source document, the earlier run stopped before the split
    \cup {[changed |-> FALSE, files |-> [x \in {RepairedName} |-> OldContent(x, "cur", d)]]}
    \* same source document, the earlier run stopped somewhere later
    \cup {[changed |-> FALSE, files |-> OldFiles("cur", d, lvl, stub, merged, out)]
              : lvl \in [1..d -> 0..3], stub \in BOOLEAN,
                merged \in {FALSE}, out \in {FALSE}}
    \cup {[changed |-> FALSE,
           files |-> OldFiles("cur", d, [n \in 1..d |-> 3], TRUE, TRUE, out)]
              : out \in BOOLEAN}

Init ==
    /\ \E d \in 1..MaxPages : \E prior \in PriorRuns(d) :
          /\ input = [pages |-> d, changed |-> prior.changed]
          /\ files = prior.files
    /\ pc = [j \in Jobs |-> "Pending"]
    /\ pdfinfo = <<>>
    /\ pdfinfo_lock = NoJob
    /\ log = {}
    /\ log_mutex = NoJob
    /\ pageinfo = [j \in Jobs |-> <<>>]
    /\ proc = [j \in Jobs |-> 0]
    /\ todo = [j \in Jobs |-> <<>>]
    /\ args_gs = <<>>
    /\ report = <<>>
    /\ locals = [j \in Jobs |-> <<>>]
    /\ tmpfiles = {}
    /\ stdout = {}

(***************************************************************************)
(* Helpers over the directory.                                             *)
(***************************************************************************)
Exists(x) == x \in DOMAIN files

Put(f, x, c) == [y \in DOMAIN f \cup {x} |-> IF y = x THEN c ELSE f[y]]
PutAll(f, g) == [y \in DOMAIN f \cup DOMAIN g |-> IF y \in DOMAIN g THEN g[y] ELSE f[y]]
Remove(f, S) == [y \in DOMAIN f \ S |-> f[y]]

\* glob '{path[0]}/*.page.pdf'
GlobPagePdf == {x \in DOMAIN files : x.ext = ".page.pdf"}

(***************************************************************************)
(* The task graph: inputs, outputs and upstream jobs of every job, as the  *)
(* decorators declare them.                                                *)
(***************************************************************************)
Stage(j) == j[1]
PageFile(j) == PagePdfName(j[2])

Complete(j) == pc[j] \in {"Done", "UpToDate"}
Running(j) == pc[j] \notin {"Pending", "Done", "Failed", "UpToDate"}
NumRunning == Cardinality({j \in Jobs : Running(j)})

Inputs(j) ==
    CASE Stage(j) = "repair" -> {}
      [] Stage(j) = "split" -> {RepairedName}
      [] Stage(j) = "stub" -> {RepairedName}
      [] Stage(j) = "rasterize" -> {PageFile(j)}
      [] Stage(j) = "ocr" -> {PngOf(PageFile(j))}
      [] Stage(j) = "render" -> {PngOf(PageFile(j)), HocrOf(PageFile(j))}
      [] Stage(j) = "merge" -> {RenderedOf(x) : x \in GlobPagePdf} \cup {StubName}
      [] Stage(j) = "validate" -> {MergedName}

Outputs(j) ==
    CASE Stage(j) = "repair" -> {RepairedName}
      [] Stage(j) = "split" -> GlobPagePdf
      [] Stage(j) = "stub" -> {StubName}
      [] Stage(j) = "rasterize" -> {PngOf(PageFile(j))}
      [] Stage(j) = "ocr" -> {HocrOf(PageFile(j))}
      [] Stage(j) = "render" -> {RenderedOf(PageFile(j))}
      [] Stage(j) = "merge" -> {MergedName}
      [] Stage(j) = "validate" -> {OutputName}

\* mutant: the merge waits for the postscript stub only
Upstream_MergeAfterStub(j) ==
    CASE Stage(j) = "repair" -> {}
      [] Stage(j) = "split" -> {Job("repair", 0)}
      [] Stage(j) = "stub" -> {Job("repair", 0)}
      [] Stage(j) = "rasterize" -> {Job("split", 0)}
      [] Stage(j) = "ocr" -> {Job("rasterize", j[2])}
      [] Stage(j) = "render" -> {Job("rasterize", j[2]), Job("ocr", j[2])}
      [] Stage(j) = "merge" -> {Job("split", 0), Job("stub", 0)}
      [] Stage(j) = "validate" -> {Job("merge", 0)}

\* mutant: OCR waits for the split only, not for the image of its page
Upstream_OcrAfterSplit(j) ==
    CASE Stage(j) = "repair" -> {}
      [] Stage(j) = "split" -> {Job("repair", 0)}
      [] Stage(j) = "stub" -> {Job("repair", 0)}
      [] Stage(j) = "rasterize" -> {Job("split", 0)}
      [] Stage(j) = "ocr" -> {Job("split", 0)}
      [] Stage(j) = "render" -> {Job("rasterize", j[2]), Job("ocr", j[2])}
      [] Stage(j) = "merge" ->
            {Job("split", 0), Job("stub", 0)}
            \cup {Job("render", n) : n \in {m \in 1..MaxPages : Exists(PagePdfName(m))}}
      [] Stage(j) = "validate" -> {Job("merge", 0)}

Upstream(j) ==
    CASE Stage(j) = "repair" -> {}
      [] Stage(j) = "split" -> {Job("repair", 0)}
      [] Stage(j) = "stub" -> {Job("repair", 0)}
      [] Stage(j) = "rasterize" -> {Job("split", 0)}
      [] Stage(j) = "ocr" -> {Job("rasterize", j[2])}
      [] Stage(j) = "render" -> {Job("rasterize", j[2]), Job("ocr", j[2])}
      [] Stage(j) = "merge" ->
            {Job("split", 0), Job("stub", 0)}
            \cup {Job("render", n) : n \in {m \in 1..MaxPages : Exists(PagePdfName(m))}}
      [] Stage(j) = "validate" -> {Job("merge", 0)}

\* a per-page job exists for every file the split task has put out
JobExists(j) ==
    Stage(j) \in PageStages => (Complete(Job("split", 0)) /\ Exists(PageFile(j)))

\* a job that raised ends the run: the jobs in flight finish, none is started
JobFailed == \E j \in Jobs : pc[j] = "Failed"

Eligible(j) ==
    /\ pc[j] = "Pending"
    /\ ~JobFailed
    /\ JobExists(j)
    /\ \A u \in Upstream(j) : Complete(u)

\* the declared output exists and is newer than the declared inputs
IsUpToDate(j) ==
    /\ Outputs(j) # {}
    /\ \A x \in Outputs(j) : Exists(x) /\ files[x].age = "old"
    /\ \A x \in Inputs(j) : Exists(x) /\ files[x].age = "old"
    /\ Stage(j) = "repair" => ~input.changed

\* mutant: the file number is used as the list index as it is
PageNo_NoOffset(input_file) == ParseInt(SubSeq(input_file.stem, 1, PrefixWidth))

\* int(os.path.basename(input_file)[0:6]) - 1
PageNo(input_file) == ParseInt(SubSeq(input_file.stem, 1, PrefixWidth)) - 1

\* the file a per-page job hands to get_pageinfo
InfoFile(j) ==
    IF Stage(j) = "rasterize" THEN PageFile(j) ELSE PngOf(PageFile(j))

\* print(pageno): the first thing a per-page stage function does, through
\* get_pageinfo, is to print the page number to the standard output
Printed(j) ==
    IF Stage(j) \in PageStages THEN {PageNo(InfoFile(j))} ELSE {}

EntryPc(stage) ==
    CASE stage = "repair" -> "tool"
      [] stage = "split" -> "unlink"
      [] stage \in PageStages -> "getinfo"
      [] stage = "stub" -> "run"
      [] stage = "merge" -> "args"
      [] stage = "validate" -> "tool"

Skip(j) ==
    /\ Eligible(j)
    /\ IsUpToDate(j)
    /\ pc' = [pc EXCEPT ![j] = "UpToDate"]
    /\ UNCHANGED <<input, files, pdfinfo, pdfinfo_lock, log, log_mutex,
                   pageinfo, proc, todo, args_gs, report, locals, tmpfiles,
                   stdout>>

Start(j) ==
    /\ Eligible(j)
    /\ ~IsUpToDate(j)
    /\ NumRunning < MaxWorkers
    /\ pc' = [pc EXCEPT ![j] = EntryPc(Stage(j))]
    /\ stdout' = stdout \cup Printed(j)
    /\ UNCHANGED <<input, files, pdfinfo, pdfinfo_lock, log, log_mutex,
                   pageinfo, proc, todo, args_gs, report, locals, tmpfiles>>

(***************************************************************************)
(* The logger: every call of WrappedLogger takes the mutex, writes the     *)
(* record and gives the mutex back.                                        *)
(***************************************************************************)
LogRec(level, msg) == [level |-> level, msg |-> msg]

\* 'if stdout: log.<level>(stdout)' and 'if stderr: log.error(stderr)'
StreamLogs(level, out, err) ==
    (IF out THEN <<LogRec(level, "tool output")>> ELSE <<>>)
    \o (IF err THEN <<LogRec("error", "tool output")>> ELSE <<>>)

LogAcquire(j) ==
    /\ Running(j)
    /\ todo[j] # <<>>
    /\ log_mutex = NoJob
    /\ log_mutex' = j
    /\ UNCHANGED <<input, files, pc, pdfinfo, pdfinfo_lock, log,
                   pageinfo, proc, todo, args_gs, report, locals, tmpfiles,
                   stdout>>

\* mutant: the record is handed to the logger without the mutex
LogWrite_NoMutex(j) ==
    /\ Running(j)
    /\ todo[j] # <<>>
    /\ log' = log \cup {Head(todo[j]).msg}
    /\ todo' = [todo EXCEPT ![j] = Tail(@)]
    /\ UNCHANGED <<input, files, pc, pdfinfo, pdfinfo_lock, log_mutex,
                   pageinfo, proc, args_gs, report, locals, tmpfiles, stdout>>

\* mutant: the mutex is not given back after the record is written
LogWrite_KeepsMutex(j) ==
    /\ log_mutex = j
    /\ todo[j] # <<>>
    /\ log' = log \cup {Head(todo[j]).msg}
    /\ todo' = [todo EXCEPT ![j] = Tail(@)]
    /\ UNCHANGED <<input, files, pc, pdfinfo, pdfinfo_lock, log_mutex,
                   pageinfo, proc, args_gs, report, locals, tmpfiles, stdout>>

LogWrite(j) ==
    /\ log_mutex = j
    /\ log' = log \cup {Head(todo[j]).msg}
    /\ todo' = [todo EXCEPT ![j] = Tail(@)]
    /\ log_mutex' = NoJob
    /\ UNCHANGED <<input, files, pc, pdfinfo, pdfinfo_lock,
                   pageinfo, proc, args_gs, report, locals, tmpfiles, stdout>>

\* the job has returned from all its pending logger calls
LogsDone(j) == todo[j] = <<>> /\ log_mutex # j

(***************************************************************************)
(* repair_pdf: mutool clean, then the page descriptors of the repaired     *)
(* document are appended to _pdfinfo under the lock and logged.            *)
(***************************************************************************)
Repair == Job("repair", 0)

\* one embedded image of a page: colour components, bits per component and
\* colour mark
Image(comp, bpc, color) == [comp |-> comp, bpc |-> bpc, color |-> color]

ImageKinds ==
    {Image(1, 1, "gray"), Image(1, 8, "gray"), Image(1, 1, "color"),
     Image(1, 8, "color"), Image(3, 8, "color")}

ImageLists == UNION {[1..k -> ImageKinds] : k \in 0..MaxImages}

\* resolutions of a page, in tenths of a dot per inch: of its images
\* (xres, yres) and the target of the rasterizer (xres_render, yres_render)
Res(x, y, xr, yr) == [xres |-> x, yres |-> y, xres_render |-> xr, yres_render |-> yr]

Resolutions ==
    {Res(3000, 3000, 3000, 3000), Res(1500, 3000, 1500, 3000),
     Res(2996, 2996, 2996, 2996), Res(1500, 1500, 3000, 3000)}

\* what the source document holds on its page of ordinal i
SourcePage(i) ==
    CASE i % 3 = 0 -> [images |-> <<Image(1, 1, "gray")>>,
                       res |-> Res(3000, 3000, 3000, 3000)]
      [] i % 3 = 1 -> [images |-> <<Image(3, 8, "color"), Image(1, 1, "gray")>>,
                       res |-> Res(1500, 3000, 1500, 3000)]
      [] i % 3 = 2 -> [images |-> <<Image(1, 8, "gray")>>,
                       res |-> Res(2996, 2996, 2996, 2996)]

Describe(i, images, res) ==
    [index |-> i, images |-> images,
     xres |-> res.xres, yres |-> res.yres,
     xres_render |-> res.xres_render, yres_render |-> res.yres_render]

\* pdf_get_all_pageinfo(output_file): one descriptor per page, in page order
Descriptor(page) ==
    Describe(page.page, SourcePage(page.page).images, SourcePage(page.page).res)

pdf_get_all_pageinfo(file) ==
    [i \in 1..Len(file.pages) |-> Descriptor(file.pages[i])]

\* check_call(args_mutool)
RepairExit(rc) ==
    /\ pc[Repair] = "tool"
    /\ IF rc = 0
       THEN /\ files' = Put(files, RepairedName, File("new", DocPages("cur", input.pages)))
            /\ pc' = [pc EXCEPT ![Repair] = "populate"]
       ELSE /\ files' = files
            /\ pc' = [pc EXCEPT ![Repair] = "Failed"]
    /\ UNCHANGED <<input, pdfinfo, pdfinfo_lock, log, log_mutex,
                   pageinfo, proc, todo, args_gs, report, locals, tmpfiles,
                   stdout>>

\* with pdfinfo_lock: pdfinfo.extend(...); log.info(pdfinfo) is still to come
RepairPopulate ==
    /\ pc[Repair] = "populate"
    /\ pdfinfo_lock = NoJob
    /\ pdfinfo_lock' = Repair
    /\ pdfinfo' = pdfinfo \o pdf_get_all_pageinfo(files[RepairedName])
    /\ todo' = [todo EXCEPT ![Repair] = <<LogRec("info", "pdfinfo")>>]
    /\ pc' = [pc EXCEPT ![Repair] = "locked"]
    /\ UNCHANGED <<input, files, log, log_mutex, pageinfo, proc, args_gs, report, locals,
                   tmpfiles, stdout>>

\* leaving the with block
RepairFinish ==
    /\ pc[Repair] = "locked"
    /\ LogsDone(Repair)
    /\ pdfinfo_lock' = NoJob
    /\ pc' = [pc EXCEPT ![Repair] = "Done"]
    /\ UNCHANGED <<input, files, pdfinfo, log, log_mutex,
                   pageinfo, proc, todo, args_gs, report, locals, tmpfiles,
                   stdout>>

(***************************************************************************)
(* split_pages: stale outputs are unlinked, then pdfseparate writes one    *)
(* file per page, numbered from 1.                                         *)
(***************************************************************************)
Split == Job("split", 0)

\* mutant: the page files found in the directory are left where they are
SplitUnlink_KeepsStale ==
    /\ pc[Split] = "unlink"
    /\ pc' = [pc EXCEPT ![Split] = "tool"]
    /\ UNCHANGED <<input, files, pdfinfo, pdfinfo_lock, log, log_mutex,
                   pageinfo, proc, todo, args_gs, report, locals, tmpfiles,
                   stdout>>

SplitUnlink ==
    /\ pc[Split] = "unlink"
    /\ files' = Remove(files, GlobPagePdf)
    /\ pc' = [pc EXCEPT ![Split] = "tool"]
    /\ UNCHANGED <<input, pdfinfo, pdfinfo_lock, log, log_mutex,
                   pageinfo, proc, todo, args_gs, report, locals, tmpfiles,
                   stdout>>

pdfseparate(file) ==
    [x \in {PagePdfName(n) : n \in 1..Len(file.pages)} |->
        File("new", <<file.pages[ParseInt(x.stem)]>>)]

SplitExit(rc) ==
    /\ pc[Split] = "tool"
    /\ IF rc = 0
       THEN /\ files' = PutAll(files, pdfseparate(files[RepairedName]))
            /\ pc' = [pc EXCEPT ![Split] = "Done"]
       ELSE /\ files' = files
            /\ pc' = [pc EXCEPT ![Split] = "Failed"]
    /\ UNCHANGED <<input, pdfinfo, pdfinfo_lock, log, log_mutex,
                   pageinfo, proc, todo, args_gs, report, locals, tmpfiles,
                   stdout>>

(***************************************************************************)
(* get_pageinfo: the page number is parsed from the first six characters   *)
(* of the basename, and the descriptor is copied out under the lock.       *)
(***************************************************************************)
\* pdfinfo[pageno] of a Python list: <<>> stands for IndexError
PyGetItem(lst, p) ==
    IF 0 <= p /\ p < Len(lst) THEN <<lst[p + 1]>>
    ELSE IF p < 0 /\ -p <= Len(lst) THEN <<lst[Len(lst) + p + 1]>>
    ELSE <<>>

\* mutant: the colour mark of the images is not looked at
Device_IgnoresColorMark(info) ==
    LET images == info.images
    IN  IF \A k \in DOMAIN images : images[k].comp = 1
        THEN IF \A k \in DOMAIN images : images[k].bpc = 1
             THEN "pngmono"
             ELSE "pnggray"
        ELSE "png16m"

\* device = 'png16m'; if all(comp == 1): if all(bpc == 1): 'pngmono'
\* elif not any(color == 'color'): 'pnggray'
Device(info) ==
    LET images == info.images
    IN  IF \A k \in DOMAIN images : images[k].comp = 1
        THEN IF \A k \in DOMAIN images : images[k].bpc = 1
             THEN "pngmono"
             ELSE IF ~ \E k \in DOMAIN images : images[k].color = "color"
                  THEN "pnggray"
                  ELSE "png16m"
        ELSE "png16m"

\* '-sDEVICE=%s' % device, '-r{0}x{1}'.format(xres_render, yres_render)
RasterArgs(info) ==
    [device |-> Device(info), xres |-> info.xres_render, yres |-> info.yres_render]

Max(a, b) == IF a >= b THEN a ELSE b

\* round() of a value given in tenths: to the nearest integer, ties to even
PyRound(t) ==
    LET q == t \div 10
        r == t % 10
    IN  IF r < 5 THEN q
        ELSE IF r > 5 THEN q + 1
        ELSE IF q % 2 = 0 THEN q ELSE q + 1

\* dpi = round(max(pageinfo['xres'], pageinfo['yres']))
RenderDpi(info) == [dpi |-> PyRound(Max(info.xres, info.yres))]

\* what the stage function computes from its descriptor before it goes on
StageLocals(stage, info) ==
    IF stage = "rasterize" THEN <<RasterArgs(info)>>
    ELSE IF stage = "render" THEN <<RenderDpi(info)>>
    ELSE <<>>

\* mutant: the descriptor is taken out of the list instead of copied
GetPageinfoLock_Pops(j) ==
    /\ Stage(j) \in PageStages
    /\ pc[j] = "getinfo"
    /\ pdfinfo_lock = NoJob
    /\ pdfinfo_lock' = j
    /\ pageinfo' = [pageinfo EXCEPT ![j] = PyGetItem(pdfinfo, PageNo(InfoFile(j)))]
    /\ pdfinfo' = IF PyGetItem(pdfinfo, PageNo(InfoFile(j))) = <<>> THEN pdfinfo
                  ELSE SelectSeq(pdfinfo,
                         LAMBDA d : d # PyGetItem(pdfinfo, PageNo(InfoFile(j)))[1])
    /\ pc' = [pc EXCEPT ![j] = "locked"]
    /\ UNCHANGED <<input, files, log, log_mutex, proc, todo, args_gs, report, locals,
                   tmpfiles, stdout>>

GetPageinfoLock(j) ==
    /\ Stage(j) \in PageStages
    /\ pc[j] = "getinfo"
    /\ pdfinfo_lock = NoJob
    /\ pdfinfo_lock' = j
    /\ pageinfo' = [pageinfo EXCEPT ![j] = PyGetItem(pdfinfo, PageNo(InfoFile(j)))]
    /\ pc' = [pc EXCEPT ![j] = "locked"]
    /\ UNCHANGED <<input, files, pdfinfo, log, log_mutex, proc, todo, args_gs, report, locals,
                   tmpfiles, stdout>>

\* mutant: the stage goes on inside the with block, the lock still held
GetPageinfoUnlock_KeepsLock(j) ==
    /\ Stage(j) \in PageStages
    /\ pc[j] = "locked"
    /\ pc' = [pc EXCEPT ![j] = IF pageinfo[j] = <<>> THEN "Failed"
                               ELSE IF Stage(j) = "render" THEN "ready"
                               ELSE "tool"]
    /\ pdfinfo_lock' = IF pageinfo[j] = <<>> THEN NoJob ELSE j
    /\ UNCHANGED <<input, files, pdfinfo, log, log_mutex,
                   pageinfo, proc, todo, args_gs, report, locals, tmpfiles,
                   stdout>>

\* leaving the with block: IndexError propagates, otherwise the stage goes
\* on with its private copy and, in rasterize and OCR, starts its tool (Popen);
\* rasterize makes the temporary file its tool is to write ('-o', tmp.name)
GetPageinfoUnlock(j) ==
    /\ Stage(j) \in PageStages
    /\ pc[j] = "locked"
    /\ pdfinfo_lock' = NoJob
    /\ pc' = [pc EXCEPT ![j] = IF pageinfo[j] = <<>> THEN "Failed"
                               ELSE IF Stage(j) = "render" THEN "ready"
                               ELSE "tool"]
    /\ locals' = [locals EXCEPT ![j] = IF pageinfo[j] = <<>> THEN <<>>
                                       ELSE StageLocals(Stage(j), pageinfo[j][1])]
    /\ tmpfiles' = IF Stage(j) = "rasterize" /\ pageinfo[j] # <<>>
                   THEN tmpfiles \cup {TmpName(j)}
                   ELSE tmpfiles
    /\ UNCHANGED <<input, files, pdfinfo, log, log_mutex,
                   pageinfo, proc, todo, args_gs, report, stdout>>

(***************************************************************************)
(* rasterize_with_ghostscript                                              *)
(***************************************************************************)
\* p.communicate() returns; the logger calls that follow are queued
RasterizeExit(j, rc, out, err) ==
    /\ Stage(j) = "rasterize"
    /\ pc[j] = "tool"
    /\ proc' = [proc EXCEPT ![j] = rc]
    /\ todo' = [todo EXCEPT ![j] =
                  StreamLogs("debug", out, err)
                  \o (IF rc = 0 THEN <<>> ELSE <<LogRec("error", "failed")>>)]
    /\ pc' = [pc EXCEPT ![j] = "exited"]
    /\ UNCHANGED <<input, files, pdfinfo, pdfinfo_lock, log, log_mutex,
                   pageinfo, args_gs, report, locals, tmpfiles, stdout>>

\* shutil.copy(tmp.name, output_file) on exit code 0; the function returns
\* normally either way, and the temporary file is deleted as it is closed
RasterizeFinish(j) ==
    /\ Stage(j) = "rasterize"
    /\ pc[j] = "exited"
    /\ LogsDone(j)
    /\ files' = IF proc[j] = 0
                THEN Put(files, PngOf(PageFile(j)), File("new", files[PageFile(j)].pages))
                ELSE files
    /\ pc' = [pc EXCEPT ![j] = "Done"]
    /\ pageinfo' = [pageinfo EXCEPT ![j] = <<>>]
    /\ proc' = [proc EXCEPT ![j] = 0]
    /\ locals' = [locals EXCEPT ![j] = <<>>]
    /\ tmpfiles' = tmpfiles \ {TmpName(j)}
    /\ UNCHANGED <<input, pdfinfo, pdfinfo_lock, log, log_mutex,
                   todo, args_gs, report, stdout>>

(***************************************************************************)
(* ocr_tesseract: the engine runs under a timeout; on timeout it is killed *)
(* and an hOCR file without text is written from the template.             *)
(***************************************************************************)
\* the file name the engine appends to the output base, by engine version
TesseractSuffixes == {".hocr.html", ".hocr.hocr"}

\* mutant: the timeout propagates as an exception, no file is written
OcrTimeout_Raises(j) ==
    /\ Stage(j) = "ocr"
    /\ pc[j] = "tool"
    /\ Exists(PngOf(PageFile(j)))
    /\ pc' = [pc EXCEPT ![j] = "Failed"]
    /\ pageinfo' = [pageinfo EXCEPT ![j] = <<>>]
    /\ UNCHANGED <<input, files, pdfinfo, pdfinfo_lock, log, log_mutex,
                   proc, todo, args_gs, report, locals, tmpfiles, stdout>>

\* mutant: communicate() is called without a timeout
OcrTimeout_Never(j) ==
    /\ Stage(j) = "ocr"
    /\ pc[j] = "tool"
    /\ FALSE
    /\ UNCHANGED vars

\* except TimeoutExpired: p.kill(); p.communicate(); write HOCR_TEMPLATE
\* (an engine that cannot open its image exits at once: it does not hang)
OcrTimeout(j) ==
    /\ Stage(j) = "ocr"
    /\ pc[j] = "tool"
    /\ Exists(PngOf(PageFile(j)))
    /\ files' = Put(files, HocrOf(PageFile(j)),
                    File("new", <<Page("cur", pageinfo[j][1].index, "fallback")>>))
    /\ pc' = [pc EXCEPT ![j] = "Done"]
    /\ pageinfo' = [pageinfo EXCEPT ![j] = <<>>]
    /\ UNCHANGED <<input, pdfinfo, pdfinfo_lock, log, log_mutex,
                   proc, todo, args_gs, report, locals, tmpfiles, stdout>>

\* p.communicate(timeout=180) returns; the engine can only succeed on an
\* image that exists, and then leaves its result under a suffixed name
OcrExit(j, rc, out, err, suffix) ==
    /\ Stage(j) = "ocr"
    /\ pc[j] = "tool"
    /\ rc = 0 => Exists(PngOf(PageFile(j)))
    /\ proc' = [proc EXCEPT ![j] = rc]
    /\ todo' = [todo EXCEPT ![j] = StreamLogs("info", out, err)]
    /\ files' = IF rc = 0
                THEN Put(files, WithExt(PageFile(j), suffix),
                         File("new", <<[files[PngOf(PageFile(j))].pages[1]
                                           EXCEPT !.text = "ocr"]>>))
                ELSE files
    /\ pc' = [pc EXCEPT ![j] = "exited"]
    /\ UNCHANGED <<input, pdfinfo, pdfinfo_lock, log, log_mutex,
                   pageinfo, args_gs, report, locals, tmpfiles, stdout>>

\* the else branch after the logger calls: raise on a non-zero exit code,
\* otherwise move the suffixed file to output_file and rewrite it in place
OcrFinish(j) ==
    /\ Stage(j) = "ocr"
    /\ pc[j] = "exited"
    /\ LogsDone(j)
    /\ LET out == HocrOf(PageFile(j))
           html == WithExt(PageFile(j), ".hocr.html")
           hocr == WithExt(PageFile(j), ".hocr.hocr")
           moved == IF Exists(html)
                    THEN Put(Remove(files, {html}), out, files[html])
                    ELSE IF Exists(hocr)
                    THEN Put(Remove(files, {hocr}), out, files[hocr])
                    ELSE files
       IN  IF proc[j] # 0
           THEN /\ files' = files
                /\ pc' = [pc EXCEPT ![j] = "Failed"]
           ELSE /\ files' = IF out \in DOMAIN moved
                            THEN Put(moved, out, File("new", moved[out].pages))
                            ELSE moved
                /\ pc' = [pc EXCEPT ![j] = IF out \in DOMAIN moved
                                           THEN "Done" ELSE "Failed"]
    /\ pageinfo' = [pageinfo EXCEPT ![j] = <<>>]
    /\ proc' = [proc EXCEPT ![j] = 0]
    /\ UNCHANGED <<input, pdfinfo, pdfinfo_lock, log, log_mutex,
                   todo, args_gs, report, locals, tmpfiles, stdout>>

(***************************************************************************)
(* render_page: HocrTransform lays the text of the hOCR file invisibly     *)
(* over the page image; it needs both files.                               *)
(***************************************************************************)
RenderRun(j) ==
    /\ Stage(j) = "render"
    /\ pc[j] = "ready"
    /\ LET image == PngOf(PageFile(j))
           hocr == HocrOf(PageFile(j))
       IN  IF Exists(image) /\ Exists(hocr)
           THEN /\ files' = Put(files, RenderedOf(PageFile(j)),
                                File("new", <<[files[image].pages[1] EXCEPT
                                                 !.text = files[hocr].pages[1].text]>>))
                /\ pc' = [pc EXCEPT ![j] = "Done"]
           ELSE /\ files' = files
                /\ pc' = [pc EXCEPT ![j] = "Failed"]
    /\ pageinfo' = [pageinfo EXCEPT ![j] = <<>>]
    /\ locals' = [locals EXCEPT ![j] = <<>>]
    /\ UNCHANGED <<input, pdfinfo, pdfinfo_lock, log, log_mutex,
                   proc, todo, args_gs, report, tmpfiles, stdout>>

(***************************************************************************)
(* generate_postscript_stub                                                *)
(***************************************************************************)
Stub == Job("stub", 0)

StubRun ==
    /\ pc[Stub] = "run"
    /\ files' = Put(files, StubName, File("new", <<>>))
    /\ pc' = [pc EXCEPT ![Stub] = "Done"]
    /\ UNCHANGED <<input, pdfinfo, pdfinfo_lock, log, log_mutex,
                   pageinfo, proc, todo, args_gs, report, locals, tmpfiles,
                   stdout>>

(***************************************************************************)
(* merge_pages: the input list of the merge is the output of every         *)
(* render_page job, in the task's job order (path order), followed by the  *)
(* output of generate_postscript_stub.                                     *)
(***************************************************************************)
Merge == Job("merge", 0)

\* order of two digit runs as path strings; the character after the run
\* is '.', which sorts before every digit
LexLess(s, t) ==
    \/ \E k \in 1..Len(s) :
          /\ k <= Len(t)
          /\ s[k] < t[k]
          /\ \A m \in 1..(k - 1) : s[m] = t[m]
    \/ Len(s) < Len(t) /\ s = SubSeq(t, 1, Len(s))

\* mutant: the jobs are listed in descending path order
RECURSIVE SortedByPath_Descending(_)
SortedByPath_Descending(S) ==
    IF S = {} THEN <<>>
    ELSE LET last == CHOOSE x \in S : \A y \in S \ {x} : LexLess(y.stem, x.stem)
         IN  <<last>> \o SortedByPath_Descending(S \ {last})

RECURSIVE SortedByPath(_)
SortedByPath(S) ==
    IF S = {} THEN <<>>
    ELSE LET first == CHOOSE x \in S : \A y \in S \ {x} : LexLess(x.stem, y.stem)
         IN  <<first>> \o SortedByPath(S \ {first})

\* input=[render_page, generate_postscript_stub]
MergeInputFiles ==
    SortedByPath({RenderedOf(x) : x \in GlobPagePdf}) \o <<StubName>>

\* mutant: the stub is taken from the front of the list
CompositorArgs_StubFirst(input_files) ==
    LET ocr_pages == Tail(input_files)
        postscript == Head(input_files)
    IN  <<postscript>> \o ocr_pages

\* ocr_pages, postscript = input_files[0:-1], input_files[-1];
\* the file arguments are the postscript stub followed by the pages
CompositorArgs(input_files) ==
    LET ocr_pages == SubSeq(input_files, 1, Len(input_files) - 1)
        postscript == input_files[Len(input_files)]
    IN  <<postscript>> \o ocr_pages

MergeArgs ==
    /\ pc[Merge] = "args"
    /\ args_gs' = CompositorArgs(MergeInputFiles)
    /\ pc' = [pc EXCEPT ![Merge] = "tool"]
    /\ UNCHANGED <<input, files, pdfinfo, pdfinfo_lock, log, log_mutex,
                   pageinfo, proc, todo, report, locals, tmpfiles, stdout>>

\* what the compositor assembles: the pages of its file arguments, in order
RECURSIVE ConcatPages(_)
ConcatPages(args) ==
    IF args = <<>> THEN <<>>
    ELSE files[Head(args)].pages \o ConcatPages(Tail(args))

\* check_call(args_gs); shutil.copy(gs_pdf.name, output_file)
MergeExit(rc) ==
    /\ pc[Merge] = "tool"
    /\ rc = 0 => \A k \in 1..Len(args_gs) : Exists(args_gs[k])
    /\ IF rc = 0
       THEN /\ files' = Put(files, MergedName, File("new", ConcatPages(args_gs)))
            /\ pc' = [pc EXCEPT ![Merge] = "Done"]
       ELSE /\ files' = files
            /\ pc' = [pc EXCEPT ![Merge] = "Failed"]
    /\ UNCHANGED <<input, pdfinfo, pdfinfo_lock, log, log_mutex,
                   pageinfo, proc, todo, args_gs, report, locals, tmpfiles,
                   stdout>>

(***************************************************************************)
(* validate_pdfa: the validator's report is searched for four patterns;    *)
(* the verdict is logged and the merged file is copied to the output path. *)
(***************************************************************************)
Validate == Job("validate", 0)

\* which of the four patterns the report matches
Reports == [ErrorMessage : BOOLEAN, NotValid : BOOLEAN,
            NotWellFormed : BOOLEAN, ProfilePdfA : BOOLEAN]

pdf_is_valid(r) == ~r.ErrorMessage /\ ~r.NotValid /\ ~r.NotWellFormed
pdf_is_pdfa(r) == r.ProfilePdfA

Classify(r) ==
    IF ~pdf_is_valid(r) THEN "Malformed"
    ELSE IF pdf_is_pdfa(r) THEN "Conformant"
    ELSE "Nonconformant"

\* the message logged for a verdict, with its level
VerdictLog(r) ==
    IF ~pdf_is_valid(r) THEN LogRec("warning", "INVALID")
    ELSE IF ~pdf_is_pdfa(r) THEN LogRec("warning", "VALID PDF but not PDF/A")
    ELSE LogRec("info", "VALID")

\* p_jhove.communicate() returns; log.debug(stdout), and log.error(stdout)
\* before the raise on a non-zero exit code
ValidateExit(rc, r) ==
    /\ pc[Validate] = "tool"
    /\ proc' = [proc EXCEPT ![Validate] = rc]
    /\ report' = <<r>>
    /\ todo' = [todo EXCEPT ![Validate] =
                  <<LogRec("debug", "tool output")>>
                  \o (IF rc = 0 THEN <<>> ELSE <<LogRec("error", "tool output")>>)]
    /\ pc' = [pc EXCEPT ![Validate] = "exited"]
    /\ UNCHANGED <<input, files, pdfinfo, pdfinfo_lock, log, log_mutex,
                   pageinfo, args_gs, locals, tmpfiles, stdout>>

\* mutant: a non-zero exit code of the validator is logged but not raised
ValidateClassify_IgnoresExit ==
    /\ pc[Validate] = "exited"
    /\ LogsDone(Validate)
    /\ pc' = [pc EXCEPT ![Validate] = "classified"]
    /\ todo' = [todo EXCEPT ![Validate] = <<VerdictLog(report[1])>>]
    /\ UNCHANGED <<input, files, pdfinfo, pdfinfo_lock, log, log_mutex,
                   pageinfo, proc, args_gs, report, locals, tmpfiles, stdout>>

\* raise RuntimeError on a non-zero exit code, else classify the report
ValidateClassify ==
    /\ pc[Validate] = "exited"
    /\ LogsDone(Validate)
    /\ IF proc[Validate] # 0
       THEN /\ pc' = [pc EXCEPT ![Validate] = "Failed"]
            /\ todo' = todo
       ELSE /\ pc' = [pc EXCEPT ![Validate] = "classified"]
            /\ todo' = [todo EXCEPT ![Validate] = <<VerdictLog(report[1])>>]
    /\ UNCHANGED <<input, files, pdfinfo, pdfinfo_lock, log, log_mutex,
                   pageinfo, proc, args_gs, report, locals, tmpfiles, stdout>>

\* mutant: the copy is made only for a file that is valid PDF/A
Delivers_OnlyPdfA(r) == pdf_is_valid(r) /\ pdf_is_pdfa(r)

\* whether validate_pdfa goes on to the copy after logging the verdict
Delivers(r) == TRUE

\* shutil.copy(input_file, output_file)
ValidateCopy ==
    /\ pc[Validate] = "classified"
    /\ LogsDone(Validate)
    /\ IF Delivers(report[1])
       THEN /\ files' = Put(files, OutputName, File("new", files[MergedName].pages))
            /\ pc' = [pc EXCEPT ![Validate] = "Done"]
       ELSE /\ files' = files
            /\ pc' = [pc EXCEPT ![Validate] = "Failed"]
    /\ UNCHANGED <<input, pdfinfo, pdfinfo_lock, log, log_mutex,
                   pageinfo, proc, todo, args_gs, report, locals, tmpfiles,
                   stdout>>

(***************************************************************************)
(* The run.                                                                *)
(***************************************************************************)
ExitCodes == {0, 1}

\* the paths the function of job j writes, creates, moves or removes
Writes(j) ==
    CASE Stage(j) = "repair" -> {RepairedName}
      [] Stage(j) = "split" ->
            GlobPagePdf \cup (IF Exists(RepairedName)
                              THEN DOMAIN pdfseparate(files[RepairedName])
                              ELSE {})
      [] Stage(j) = "stub" -> {StubName}
      [] Stage(j) = "rasterize" ->
            {PngOf(PageFile(j))} \cup (tmpfiles \cap {TmpName(j)})
      [] Stage(j) = "ocr" ->
            {HocrOf(PageFile(j))}
            \cup {WithExt(PageFile(j), suffix) : suffix \in TesseractSuffixes}
      [] Stage(j) = "render" -> {RenderedOf(PageFile(j))}
      [] Stage(j) = "merge" -> {MergedName}
      [] Stage(j) = "validate" -> {OutputName}

\* the suffixes of the files of a per-page stage
StageSuffixes(stage) ==
    CASE stage = "rasterize" -> {".page.png"}
      [] stage = "ocr" -> {".hocr"} \cup TesseractSuffixes
      [] stage = "render" -> {".rendered.pdf"}

JobsOf(stage) == {j \in Jobs : Stage(j) = stage}
PageJobs == {j \in Jobs : Stage(j) \in PageStages}

\* what a tool may have printed: nothing, or something on both streams
Streams == {[out |-> FALSE, err |-> FALSE], [out |-> TRUE, err |-> TRUE]}

Next ==
    \/ \E j \in Jobs : Skip(j)
    \/ \E j \in Jobs : Start(j)
    \/ \E j \in Jobs : LogAcquire(j)
    \/ \E j \in Jobs : LogWrite(j)
    \/ \E rc \in ExitCodes : RepairExit(rc)
    \/ RepairPopulate
    \/ RepairFinish
    \/ SplitUnlink
    \/ \E rc \in ExitCodes : SplitExit(rc)
    \/ \E j \in PageJobs : GetPageinfoLock(j)
    \/ \E j \in PageJobs : GetPageinfoUnlock(j)
    \/ \E j \in JobsOf("rasterize"), rc \in ExitCodes, io \in Streams :
          RasterizeExit(j, rc, io.out, io.err)
    \/ \E j \in JobsOf("rasterize") : RasterizeFinish(j)
    \/ \E j \in JobsOf("ocr") : OcrTimeout(j)
    \/ \E j \in JobsOf("ocr"), rc \in ExitCodes, io \in Streams,
          suffix \in TesseractSuffixes : OcrExit(j, rc, io.out, io.err, suffix)
    \/ \E j \in JobsOf("ocr") : OcrFinish(j)
    \/ \E j \in JobsOf("render") : RenderRun(j)
    \/ StubRun
    \/ MergeArgs
    \/ \E rc \in ExitCodes : MergeExit(rc)
    \/ \E rc \in ExitCodes, r \in Reports : ValidateExit(rc, r)
    \/ ValidateClassify
    \/ ValidateCopy

Spec == Init /\ [][Next]_vars

(***************************************************************************)
(* Progress.  The scheduler keeps dispatching and every worker keeps       *)
(* executing its stage function.  Nothing makes an external tool exit:     *)
(* only the engine of ocr_tesseract is waited for under a timeout, and an  *)
(* engine that cannot open its image exits by itself.                      *)
(***************************************************************************)
\* the scheduler, one process
Dispatch == \E j \in Jobs : Skip(j) \/ Start(j)

\* the steps the worker of job j takes by itself
Internal(j) ==
    \/ LogAcquire(j)
    \/ LogWrite(j)
    \/ j = Repair /\ (RepairPopulate \/ RepairFinish)
    \/ j = Split /\ SplitUnlink
    \/ GetPageinfoLock(j)
    \/ GetPageinfoUnlock(j)
    \/ RasterizeFinish(j)
    \/ OcrFinish(j)
    \/ RenderRun(j)
    \/ j = Stub /\ StubRun
    \/ j = Merge /\ MergeArgs
    \/ j = Validate /\ (ValidateClassify \/ ValidateCopy)

OcrCannotOpen(j) ==
    /\ ~Exists(PngOf(PageFile(j)))
    /\ \E io \in Streams, suffix \in TesseractSuffixes :
          OcrExit(j, 1, io.out, io.err, suffix)

\* communicate(timeout=180) comes back
OcrWaitEnds(j) == OcrTimeout(j) \/ OcrCannotOpen(j)

Fairness ==
    /\ WF_vars(Dispatch)
    /\ \A j \in Jobs : WF_vars(Internal(j))
    /\ \A j \in JobsOf("ocr") : WF_vars(OcrWaitEnds(j))

LiveSpec == Init /\ [][Next]_vars /\ Fairness

(***************************************************************************)
(* The store and the page stages called directly: the store holds the      *)
(* descriptors of some document, get_pageinfo is applied to page files of  *)
(* every number from 000000 to one past the last page, each stage computes *)
(* what it derives from the descriptor, and repair_pdf may be called again *)
(* on the store it has filled.                                             *)
(***************************************************************************)
ProbeJobs == {Job(s, n) : s \in PageStages, n \in 0..(MaxPages + 1)}

UnitInit ==
    /\ \E n \in 0..MaxPages, images \in ImageLists, res \in Resolutions :
          /\ pdfinfo = [i \in 1..n |-> Describe(i - 1, images, res)]
          /\ input = [pages |-> Max(n, 1), changed |-> TRUE]
    /\ files = NoFiles
    /\ pc = [j \in Jobs \cup ProbeJobs |-> IF j = Repair THEN "Done" ELSE "Pending"]
    /\ pdfinfo_lock = NoJob
    /\ log = {}
    /\ log_mutex = NoJob
    /\ pageinfo = [j \in Jobs \cup ProbeJobs |-> <<>>]
    /\ proc = [j \in Jobs \cup ProbeJobs |-> 0]
    /\ todo = [j \in Jobs \cup ProbeJobs |-> <<>>]
    /\ args_gs = <<>>
    /\ report = <<>>
    /\ locals = [j \in Jobs \cup ProbeJobs |-> <<>>]
    /\ tmpfiles = {}
    /\ stdout = {}

\* one call at a time
Idle == pc[Repair] \in {"Done", "Failed"} /\ \A j \in ProbeJobs : pc[j] = "Pending"

\* a page stage function is entered for the file of job j
ProbeCall(j) ==
    /\ Idle
    /\ pc[j] = "Pending"
    /\ pc' = [pc EXCEPT ![j] = "getinfo"]
    /\ stdout' = stdout \cup Printed(j)
    /\ UNCHANGED <<input, files, pdfinfo, pdfinfo_lock, log, log_mutex,
                   pageinfo, proc, todo, args_gs, report, locals, tmpfiles>>

\* the call is over: its locals are gone, and what it printed has been read
ProbeReturn(j) ==
    /\ pc[j] \in {"tool", "ready", "Failed"}
    /\ pc' = [pc EXCEPT ![j] = "Pending"]
    /\ pageinfo' = [pageinfo EXCEPT ![j] = <<>>]
    /\ locals' = [locals EXCEPT ![j] = <<>>]
    /\ tmpfiles' = tmpfiles \ {TmpName(j)}
    /\ stdout' = {}
    /\ UNCHANGED <<input, files, pdfinfo, pdfinfo_lock, log, log_mutex,
                   proc, todo, args_gs, report>>

\* repair_pdf is entered once more with the store as it is
RepairAgain ==
    /\ Idle
    /\ pc[Repair] = "Done"
    /\ Len(pdfinfo) <= MaxPages
    /\ pc' = [pc EXCEPT ![Repair] = "tool"]
    /\ UNCHANGED <<input, files, pdfinfo, pdfinfo_lock, log, log_mutex,
                   pageinfo, proc, todo, args_gs, report, locals, tmpfiles,
                   stdout>>

UnitNext ==
    \/ \E j \in ProbeJobs : ProbeCall(j)
    \/ \E j \in ProbeJobs : GetPageinfoLock(j)
    \/ \E j \in ProbeJobs : GetPageinfoUnlock(j)
    \/ \E j \in ProbeJobs : ProbeReturn(j)
    \/ RepairAgain
    \/ \E rc \in ExitCodes : RepairExit(rc)
    \/ RepairPopulate
    \/ LogAcquire(Repair)
    \/ LogWrite(Repair)
    \/ RepairFinish

UnitSpec == UnitInit /\ [][UnitNext]_vars

(***************************************************************************)
(* Properties.                                                             *)
(***************************************************************************)
OcrJobs == JobsOf("ocr")

\* written by this run
Written(x) == Exists(x) /\ files[x].age = "new"

\* page file numbers of the repaired document
PageNums == 1..Len(files[RepairedName].pages)

Verdict == IF report = <<>> THEN "none" ELSE Classify(report[1])

\* C1: when the validator's report is classified Malformed, validate_pdfa
\* does not end Done and the output path is not written.
C1_MalformedNotDelivered ==
    Verdict = "Malformed" => (pc[Validate] # "Done" /\ ~Written(OutputName))

\* C2: when the validator exits zero and the report is classified Conformant
\* or Nonconformant, validate_pdfa does not fail, and once it has ended the
\* output path holds a copy of the merged candidate.
C2_ValidDelivered ==
    (Verdict \in {"Conformant", "Nonconformant"} /\ proc[Validate] = 0)
        => /\ pc[Validate] # "Failed"
           /\ pc[Validate] = "Done" =>
                 (Written(OutputName)
                  /\ files[OutputName].pages = files[MergedName].pages)

C2_Witness ==
    /\ pc[Validate] = "Done"
    /\ Verdict = "Nonconformant"
    /\ Written(OutputName)

\* C3: an OCR job whose engine times out ends Done with a one-page hOCR
\* file at its output path that carries no text; render of that page does not fail and its
\* output is that page without text; the step changes the state and files of
\* no other job, and leaves the metadata list alone.
C3_FallbackState ==
    \A n \in 1..MaxPages :
        LET h == HocrOf(PagePdfName(n))
            r == RenderedOf(PagePdfName(n))
        IN  (Written(h) /\ files[h].pages[1].text = "fallback")
                => /\ pc[Job("ocr", n)] = "Done"
                   /\ Len(files[h].pages) = 1
                   /\ pc[Job("render", n)] # "Failed"
                   /\ pc[Job("render", n)] = "Done"
                        => /\ Written(r)
                           /\ Len(files[r].pages) = 1
                           /\ files[r].pages[1].page = n - 1
                           /\ files[r].pages[1].text = "fallback"

C3_TimeoutStep ==
    \A j \in OcrJobs :
        (pc[j] = "tool" /\ pc'[j] \notin {"tool", "exited"})
            => LET h == HocrOf(PageFile(j))
               IN  /\ pc'[j] = "Done"
                   /\ h \in DOMAIN files'
                   /\ files'[h].age = "new"
                   /\ Len(files'[h].pages) = 1
                   /\ files'[h].pages[1].text = "fallback"
                   /\ \A k \in Jobs \ {j} : pc'[k] = pc[k]
                   /\ DOMAIN files' = DOMAIN files \cup {h}
                   /\ \A x \in DOMAIN files \ {h} : files'[x] = files[x]
                   /\ pdfinfo' = pdfinfo

C4_MergeOrder ==
    /\ \A k \in 2..Len(args_gs) : args_gs[k] = RenderedOf(PagePdfName(k - 1))
    /\ Written(MergedName) =>
          \A i \in 1..Len(files[MergedName].pages) :
              files[MergedName].pages[i].page = i - 1

C4_Witness ==
    /\ pc[Merge] = "Done"
    /\ Written(MergedName)
    /\ Len(files[MergedName].pages) >= 2
    /\ files[MergedName].pages[1].text # files[MergedName].pages[2].text

\* C5: no job ends Done without the output it declares (a tool that exits
\* non-zero makes its stage fail).
C5_DoneHasOutput ==
    \A j \in Jobs : pc[j] = "Done" => \A x \in Outputs(j) : Exists(x)

\* C6: the output path is written only when every stage of the run is
\* complete, and then holds every page of the source document, in order;
\* after a stage has failed (a job that raised, a rasterizer that reported
\* 'Ghostscript rendering failed', a non-zero exit of the validator) it is
\* not written.
AllStagesComplete ==
    /\ \A s \in {"repair", "split", "stub", "merge"} : Complete(Job(s, 0))
    /\ pc[Validate] = "Done"
    /\ \A n \in PageNums : \A s \in PageStages : Complete(Job(s, n))

StageFailed == JobFailed \/ proc[Validate] # 0 \/ "failed" \in log

C6_AllOrNothing ==
    /\ Written(OutputName) =>
          /\ AllStagesComplete
          /\ Len(files[OutputName].pages) = input.pages
          /\ \A i \in 1..Len(files[OutputName].pages) :
                /\ files[OutputName].pages[i].doc = "cur"
                /\ files[OutputName].pages[i].page = i - 1
    /\ StageFailed => ~Written(OutputName)

\* C7: whenever a per-page job reads the metadata list, the list holds one
\* descriptor per page of the repaired document.
C7_StorePopulatedAtRead ==
    \A j \in PageJobs :
        pc[j] = "locked" => Len(pdfinfo) = Len(files[RepairedName].pages)

\* C8: the index a per-page job computes from the file name is the ordinal
\* of the page its file carries, and the descriptor it obtains is that page's.
C8_IndexIsOrdinal ==
    \A j \in PageJobs :
        pc[j] \in {"locked", "ready", "tool", "exited"} =>
            LET i == files[PageFile(j)].pages[1].page
            IN  /\ PageNo(InfoFile(j)) = i
                /\ pageinfo[j] # <<>> => pageinfo[j][1].index = i

C8_Witness ==
    \E j \in JobsOf("render") :
        /\ pc[j] = "ready"
        /\ j[2] = 2
        /\ pageinfo[j] = <<Descriptor(files[PageFile(j)].pages[1])>>
        /\ pageinfo[j][1].index = 1

\* C9: while the merge runs, the stub and the rendered document of every
\* page exist and no render job is pending or running.
C9_MergeBarrier ==
    Running(Merge) =>
        /\ Complete(Stub) /\ Exists(StubName)
        /\ \A n \in PageNums :
              /\ Complete(Job("render", n))
              /\ Exists(RenderedOf(PagePdfName(n)))

C9_Witness ==
    /\ pc[Merge] = "tool"
    /\ Len(files[RepairedName].pages) >= 2

\* C10: the compositor is given the stub once, first, and then the rendered
\* document of every page once and nothing else; the merged file has as
\* many pages as the repaired document.
C10_CompositorArgs ==
    args_gs # <<>> =>
        LET N == Len(files[RepairedName].pages)
        IN  /\ Len(args_gs) = N + 1
            /\ args_gs[1] = StubName
            /\ {args_gs[k] : k \in 2..Len(args_gs)}
                  = {RenderedOf(PagePdfName(n)) : n \in 1..N}
            /\ Written(MergedName) => Len(files[MergedName].pages) = N

C10_Witness ==
    /\ Written(MergedName)
    /\ Len(args_gs) = 2
    /\ Exists(RenderedOf(PagePdfName(2)))

\* C11: a read of the list with an index outside [0, len) yields no
\* descriptor (the call fails); so the file numbered 000000 and the files
\* numbered past the last page obtain none.
C11_OutOfRangeFails ==
    \A j \in ProbeJobs :
        LET p == PageNo(InfoFile(j))
        IN  (pc[j] = "locked" /\ ~(0 <= p /\ p < Len(pdfinfo)))
                => pageinfo[j] = <<>>

\* C12: when repair_pdf reaches its populate step on a list that already
\* holds descriptors, it fails and the list stays as it is.
C12_PopulateStep ==
    (pc[Repair] = "populate" /\ pc'[Repair] # "populate" /\ pdfinfo # <<>>)
        => (pdfinfo' = pdfinfo /\ pc'[Repair] = "Failed")

C12_SecondPopulateFails == [][C12_PopulateStep]_vars

\* C13: once repair_pdf is over the list holds the descriptors of the
\* repaired document, and no step changes it: not the steps of rasterize,
\* OCR, render, merge and validate, and not a job dropping or changing its
\* private copy.
C13_Populated ==
    pc[Repair] = "Done" => pdfinfo = pdf_get_all_pageinfo(files[RepairedName])

C13_Step ==
    (\/ pc[Repair] = "Done"
     \/ \E j \in Jobs \ {Repair} : pc'[j] # pc[j]
     \/ pageinfo' # pageinfo
     \/ locals' # locals)
        => pdfinfo' = pdfinfo

C13_StoreFrozen == [](C13_Populated) /\ [][C13_Step]_vars

C13_Witness ==
    /\ pc[Repair] = "Done"
    /\ Len(pdfinfo) >= 2
    /\ \A n \in 1..Len(pdfinfo) : pc[Job("render", n)] = "Done"
    /\ pc[Validate] = "Done"

\* C14: the device rasterize selects is the 1-bit one iff every image of
\* the page has one component and one bit per component; otherwise the
\* grayscale one iff every image has one component and none is marked
\* colour; otherwise the 24-bit one.
AllMono(images) ==
    \A k \in DOMAIN images : images[k].comp = 1 /\ images[k].bpc = 1

AllGray(images) ==
    \A k \in DOMAIN images : images[k].comp = 1 /\ images[k].color # "color"

C14_DeviceChoice ==
    \A j \in DOMAIN locals :
        (Stage(j) = "rasterize" /\ locals[j] # <<>>) =>
            LET images == pageinfo[j][1].images
                device == locals[j][1].device
            IN  /\ device \in {"pngmono", "pnggray", "png16m"}
                /\ device = "pngmono" <=> AllMono(images)
                /\ device = "pnggray" <=> (~AllMono(images) /\ AllGray(images))

C14_Witness ==
    \E j \in DOMAIN locals :
        /\ Stage(j) = "rasterize"
        /\ pc[j] = "tool"
        /\ locals[j] # <<>>
        /\ locals[j][1].device = "pnggray"
        /\ pageinfo[j][1].images = <<Image(1, 1, "gray"), Image(1, 8, "gray")>>

\* C15: the dpi render_page computes for a page equals the larger of the
\* two resolutions rasterize passes to the rasterizer for the same
\* descriptor (both in tenths of a dot per inch).
C15_DpiIsRenderResolution ==
    \A j \in DOMAIN locals :
        (Stage(j) = "render" /\ locals[j] # <<>>) =>
            locals[j][1].dpi * 10
                = Max(RasterArgs(pageinfo[j][1]).xres, RasterArgs(pageinfo[j][1]).yres)

\* C16: an OCR job that is over has left a log record telling whether it
\* produced text or the fallback, and a validation that is over has left
\* its verdict.
C16_OutcomeReported ==
    /\ \A n \in 1..MaxPages :
          LET h == HocrOf(PagePdfName(n))
          IN  (pc[Job("ocr", n)] = "Done" /\ Written(h)) =>
                 IF files[h].pages[1].text = "fallback"
                 THEN "fallback" \in log
                 ELSE "text layer" \in log
    /\ pc[Validate] = "Done" =>
          log \cap {"INVALID", "VALID PDF but not PDF/A", "VALID"} # {}

\* C17: every job that has started ends, whatever the external tools do.
C17_EveryJobEnds == \A j \in Jobs : Running(j) ~> ~Running(j)

\* C18: every OCR job that has started ends Done or Failed, and then holds
\* no worker, whether or not the engine exits by itself.
C18_OcrEnds ==
    \A j \in OcrJobs : Running(j) ~> (pc[j] \in {"Done", "Failed"} /\ ~Running(j))

C18_Witness ==
    \E n \in 1..MaxPages :
        /\ pc[Job("ocr", n)] = "Done"
        /\ Written(HocrOf(PagePdfName(n)))
        /\ files[HocrOf(PagePdfName(n))].pages[1].text = "fallback"
        /\ NumRunning = MaxWorkers
        /\ Running(Job("render", n))

C20_NoLockAcrossTool ==
    \A j \in Jobs : pc[j] \in {"tool", "ready", "exited"} => pdfinfo_lock # j

C20_Witness ==
    \E j, k \in PageJobs :
        /\ j # k
        /\ pc[j] = "tool"
        /\ pdfinfo_lock = k
        /\ pc[k] = "locked"

\* C21: no nested locking: no worker that holds the lock of the metadata
\* store holds the log mutex or has a log call to make (for which it has to
\* take or wait for the mutex); a worker holds at most one of the two locks.
C21_NoNestedLocking ==
    \A j \in Jobs :
        pdfinfo_lock = j => (log_mutex # j /\ todo[j] = <<>>)

\* C22 (as stated): no two jobs that run at the same time write the same
\* path, and every path a running per-page job writes carries the page's
\* six-digit prefix and a suffix of its stage and is none of the paths of
\* the repair, stub, merge and validate stages.
SinglePaths == {RepairedName, StubName, MergedName, OutputName}

RunningJobs == {j \in Jobs : Running(j)}

DisjointWrites ==
    \A j, k \in RunningJobs : j # k => Writes(j) \cap Writes(k) = {}

\* the six digits the files of page n begin with
PagePrefixes == [n \in 1..MaxPages |-> Format06d(n)]

Partitioned(j, x) ==
    /\ x.stem = PagePrefixes[j[2]]
    /\ x.ext \in StageSuffixes(Stage(j))
    /\ x \notin SinglePaths

C22_AllPathsPartitioned ==
    /\ DisjointWrites
    /\ \A j \in RunningJobs \cap PageJobs : \A x \in Writes(j) : Partitioned(j, x)

\* C22 (amended): no two jobs that run at the same time write the same
\* path; every path a running per-page job writes in the working directory
\* carries the page's prefix and a suffix of its stage, and the temporary
\* file of a rasterize job, which carries neither, is a file of that one
\* call; every step that changes a file changes one of the paths of a
\* running job.
C22_Inv ==
    /\ DisjointWrites
    /\ \A j \in RunningJobs \cap PageJobs :
          /\ \A x \in Writes(j) \ tmpfiles : Partitioned(j, x)
          /\ \A x \in Writes(j) \cap tmpfiles : x = TmpName(j)
    /\ \A x \in tmpfiles : Stage(x.call) = "rasterize" /\ Running(x.call)

Changed(x) ==
    \/ (x \in DOMAIN files) # (x \in DOMAIN files')
    \/ x \in DOMAIN files /\ x \in DOMAIN files' /\ files[x] # files'[x]
    \/ (x \in tmpfiles) # (x \in tmpfiles')

C22_Step ==
    (files' # files \/ tmpfiles' # tmpfiles) =>
        \A x \in DOMAIN files \cup DOMAIN files' \cup tmpfiles \cup tmpfiles' :
            Changed(x) =>
                \E j \in RunningJobs : x \in Writes(j) \/ x \in Writes(j)'

C22_NoSharedWrites == []C22_Inv /\ [][C22_Step]_vars

C22_Witness ==
    \E j \in JobsOf("rasterize"), k \in JobsOf("ocr") :
        /\ pc[j] = "tool"
        /\ TmpName(j) \in tmpfiles
        /\ pc[k] = "exited"
        /\ Exists(WithExt(PageFile(k), ".hocr.html"))

\* C23: every record a job writes to the shared log is written while the job
\* holds the log mutex: a step that writes a record (a pending log call of
\* some job is carried out, or the log changes) is a step of the one job
\* that holds the mutex, it writes that job's record, and nothing else is
\* written in the same step.  What get_pageinfo prints goes to the standard
\* output, not to the log.
LogCallDone(j) == todo[j] # <<>> /\ todo'[j] = Tail(todo[j])

C23_Step ==
    /\ \A j \in Jobs :
          LogCallDone(j) =>
              /\ log_mutex = j
              /\ log' = log \cup {Head(todo[j]).msg}
              /\ \A k \in Jobs \ {j} : todo'[k] = todo[k]
    /\ log' # log => \E j \in Jobs : log_mutex = j /\ LogCallDone(j)

C23_WritesUnderMutex == [][C23_Step]_vars

\* two jobs have a record to write; one holds the mutex, the other waits
C23_Witness ==
    \E j, k \in Jobs :
        /\ j # k
        /\ log_mutex = j
        /\ todo[j] # <<>>
        /\ todo[k] # <<>>
        /\ Running(k)
        /\ "tool output" \in log

\* C24: once split_pages has run to its end, the page files in the working
\* directory are exactly the pages of the repaired document of this run,
\* one file per page with that page in it; no page file of an earlier run
\* is left, and no rasterize job and no argument of the merge is there for
\* a page the document does not have.
C24_SplitLeavesCurrentPages ==
    pc[Split] = "Done" =>
        LET N == Len(files[RepairedName].pages)
        IN  /\ GlobPagePdf = {PagePdfName(n) : n \in 1..N}
            /\ \A n \in 1..N :
                  files[PagePdfName(n)].pages = <<files[RepairedName].pages[n]>>
            /\ \A n \in 1..MaxPages :
                  pc[Job("rasterize", n)] # "Pending" => n <= N
            /\ \A k \in 2..Len(args_gs) :
                  \E n \in 1..N : args_gs[k] = RenderedOf(PagePdfName(n))

\* the run is on a document shorter than the one an earlier run has left
\* page files of, and the merge has been given its arguments
C24_Witness ==
    /\ pc[Split] = "Done"
    /\ Len(files[RepairedName].pages) < MaxPages
    /\ Exists(RenderedOf(PagePdfName(MaxPages)))
    /\ files[RenderedOf(PagePdfName(MaxPages))].pages[1].doc = "prev"
    /\ ~Exists(PagePdfName(MaxPages))
    /\ args_gs # <<>>

\* C25: the locking is free of deadlock: a worker waits at most for a lock
\* whose holder waits for none, a lock is held only inside the block it
\* guards, and under fair scheduling every worker that asks for the lock of
\* the store or for the log mutex gets it.
WantsLock(j) ==
    \/ Stage(j) \in PageStages /\ pc[j] = "getinfo"
    \/ j = Repair /\ pc[j] = "populate"

WantsMutex(j) == Running(j) /\ todo[j] # <<>> /\ log_mutex # j

\* j waits for a lock that k holds
WaitsFor(j, k) ==
    /\ j # k
    /\ \/ WantsLock(j) /\ pdfinfo_lock = k
       \/ WantsMutex(j) /\ log_mutex = k

Waits(j) == \E k \in Jobs : WaitsFor(j, k)

NoWaitCycle ==
    \A j, k \in Jobs : WaitsFor(j, k) => ~Waits(k)

\* a lock is held only by a worker inside the block it guards: the holder
\* of the mutex has its record to write, the holder of the store's lock is
\* inside its with block
HoldersInside ==
    \A j \in Jobs :
        /\ log_mutex = j => (Running(j) /\ todo[j] # <<>>)
        /\ pdfinfo_lock = j => pc[j] = "locked"

\* the jobs whose functions take the lock of the store, and those that log
LockUsers == PageJobs \cup {Repair}
LogUsers == {j \in Jobs : Stage(j) \in {"repair", "rasterize", "ocr", "validate"}}

C25_LocksGranted ==
    /\ []NoWaitCycle
    /\ []HoldersInside
    /\ [](\A j \in Jobs : (WantsLock(j) => j \in LockUsers)
                         /\ (WantsMutex(j) => j \in LogUsers))
    /\ \A j \in LockUsers : WantsLock(j) ~> (pdfinfo_lock = j)
    /\ \A j \in LogUsers : WantsMutex(j) ~> (log_mutex = j)

\* a job waits for the lock of the store while another job holds it
C25_Witness ==
    \E j, k \in Jobs :
        /\ WaitsFor(j, k)
        /\ WantsLock(j)
        /\ pdfinfo_lock = k
        /\ pc[k] = "locked"

=============================================================================
